---- MODULE Spec2Model ----
(***************************************************************************)
(* PaperPilot backend: the PDF chunker (services/pdf_processor.py), the    *)
(* per-document vector store (rag/vector_store.py), the RAG service        *)
(* (services/rag_service.py), the generator client (rag/groq_service.py)   *)
(* and the HTTP handlers (api/endpoints.py).                               *)
(*                                                                         *)
(* Text is a sequence of one-character strings.                            *)
(***************************************************************************)
EXTENDS Integers, Sequences, FiniteSets, TLC

\* ------------------------------------------------------------------ bounds
\* Longest input text handed to chunk_text in SpecChunk.
MaxTextLen == 7
\* chunk_size ranges over 1..MaxChunkSize, chunk_overlap over 0..MaxOverlap.
MaxChunkSize == 4
MaxOverlap == 3

\* ------------------------------------------------------------- characters
NL == "\n"
SP == " "
\* The characters input texts are built from: a letter, a sentence
\* terminator and a newline (two newlines are a blank line, one newline is
\* the whitespace of a sentence break).  SP enters chunks through the
\* sentence join.
Char == {"a", ".", NL}

\* str.strip() and the regex class \s: whitespace.
IsSpace(c) == c \in {SP, NL, "\t"}

\* The lookbehind class [.!?] of _split_sentences.
Terminators == {".", "!", "?"}

SetMin(S) == CHOOSE x \in S : \A y \in S : x <= y

\* All texts over Char of length 0..n.
TextsUpTo(n) == UNION {[1..k -> Char] : k \in 0..n}

\* ---------------------------------------------------------------- helpers
\* Index of the first character at or after i that is not whitespace
\* (Len(s) + 1 when there is none).
RECURSIVE first_kept(_, _)
first_kept(s, i) ==
    IF i > Len(s) \/ ~IsSpace(s[i]) THEN i ELSE first_kept(s, i + 1)

\* Index of the last character at or before i that is not whitespace
\* (0 when there is none).
RECURSIVE last_kept(_, _)
last_kept(s, i) ==
    IF i < 1 \/ ~IsSpace(s[i]) THEN i ELSE last_kept(s, i - 1)

\* s.strip()
strip(s) == SubSeq(s, first_kept(s, 1), last_kept(s, Len(s)))

\* s.lstrip(): leading whitespace removed (what strip() removes at the head).
lstrip(s) == SubSeq(s, first_kept(s, 1), Len(s))

\* s[-n:] for n > 0: the last n characters, all of s when it is shorter.
LastChars(s, n) == IF Len(s) <= n THEN s ELSE SubSeq(s, Len(s) - n + 1, Len(s))

\* s[:n]: the first n characters, all of s when it is shorter.
FirstChars(s, n) == IF Len(s) <= n THEN s ELSE SubSeq(s, 1, n)

IsPrefix(p, s) == Len(p) <= Len(s) /\ SubSeq(s, 1, Len(p)) = p

\* text.split("\n\n"): cut at each blank line, scanning left to right.
RECURSIVE split_paragraphs(_)
split_paragraphs(s) ==
    LET hits == {i \in 1..(Len(s) - 1) : s[i] = NL /\ s[i + 1] = NL}
    IN  IF hits = {} THEN <<s>>
        ELSE LET i == SetMin(hits)
             IN  <<SubSeq(s, 1, i - 1)>> \o split_paragraphs(SubSeq(s, i + 2, Len(s)))

\* re.split(r'(?<=[.!?])\s+', text): cut at each maximal run of whitespace
\* that directly follows a terminator; the run itself is dropped.
RECURSIVE re_split_sentences(_)
re_split_sentences(s) ==
    LET hits == {i \in 2..Len(s) : s[i - 1] \in Terminators /\ IsSpace(s[i])}
    IN  IF hits = {} THEN <<s>>
        ELSE LET i == SetMin(hits)
                 rest == {j \in i..Len(s) : ~IsSpace(s[j])}
                 j == IF rest = {} THEN Len(s) + 1 ELSE SetMin(rest)
             IN  <<SubSeq(s, 1, i - 1)>> \o re_split_sentences(SubSeq(s, j, Len(s)))

\* [s.strip() for s in seq if s.strip()]
RECURSIVE strip_nonempty(_)
strip_nonempty(seq) ==
    IF seq = <<>> THEN <<>>
    ELSE (IF strip(Head(seq)) = <<>> THEN <<>> ELSE <<strip(Head(seq))>>)
         \o strip_nonempty(Tail(seq))

\* PDFProcessor._split_sentences
_split_sentences(text) == strip_nonempty(re_split_sentences(text))

\* ------------------------------------------------------------- chunk_text
\* seed_after_flush with the overlap taken from the head of the flushed
\* buffer (current_chunk[:chunk_overlap]).
seed_from_head(current_chunk, para, chunk_overlap) ==
    IF chunk_overlap > 0 /\ current_chunk # <<>>
    THEN FirstChars(current_chunk, chunk_overlap) \o <<NL, NL>> \o para
    ELSE para

\* The buffer that follows a flush: the last chunk_overlap characters of
\* the flushed buffer, a blank line, then the paragraph (or the paragraph
\* alone without overlap).
seed_after_flush(current_chunk, para, chunk_overlap) ==
    IF chunk_overlap > 0 /\ current_chunk # <<>>
    THEN LastChars(current_chunk, chunk_overlap) \o <<NL, NL>> \o para
    ELSE para

\* The test that flushes the paragraph buffer.
para_overflows(current_chunk, para, chunk_size) ==
    current_chunk # <<>> /\ Len(current_chunk) + Len(para) > chunk_size

\* The paragraph loop: st = [current_chunk, chunks] after the paragraphs
\* before index k; returns the state after the last paragraph.
RECURSIVE para_loop(_, _, _, _, _)
para_loop(paragraphs, k, st, chunk_size, chunk_overlap) ==
    IF k > Len(paragraphs) THEN st
    ELSE LET para == strip(paragraphs[k])
             cur == st.current_chunk
             nxt == IF para = <<>> THEN st
                    ELSE IF para_overflows(cur, para, chunk_size)
                    THEN [current_chunk |-> seed_after_flush(cur, para, chunk_overlap),
                          chunks |-> Append(st.chunks, strip(cur))]
                    ELSE [current_chunk |-> IF cur # <<>> THEN cur \o <<NL, NL>> \o para
                                            ELSE para,
                          chunks |-> st.chunks]
         IN  para_loop(paragraphs, k + 1, nxt, chunk_size, chunk_overlap)

\* The paragraph-level list `chunks`, the last buffer included.
paragraph_chunks(txt, chunk_size, chunk_overlap) ==
    IF strip(txt) = <<>> THEN <<>>
    ELSE LET st == para_loop(split_paragraphs(txt), 1,
                             [current_chunk |-> <<>>, chunks |-> <<>>],
                             chunk_size, chunk_overlap)
         IN  IF strip(st.current_chunk) # <<>>
             THEN Append(st.chunks, strip(st.current_chunk))
             ELSE st.chunks

\* The test that flushes the sentence buffer.
sentence_overflows(temp_chunk, sentence, chunk_size) ==
    temp_chunk # <<>> /\ Len(temp_chunk) + Len(sentence) > chunk_size

\* The sentence loop over one oversized chunk: st = [temp_chunk, out].
RECURSIVE sentence_loop(_, _, _, _)
sentence_loop(sentences, k, st, chunk_size) ==
    IF k > Len(sentences) THEN st
    ELSE LET sentence == sentences[k]
             tmp == st.temp_chunk
             nxt == IF sentence_overflows(tmp, sentence, chunk_size)
                    THEN [temp_chunk |-> sentence, out |-> Append(st.out, strip(tmp))]
                    ELSE [temp_chunk |-> tmp \o (IF tmp # <<>> THEN <<SP>> ELSE <<>>)
                                             \o sentence,
                          out |-> st.out]
         IN  sentence_loop(sentences, k + 1, nxt, chunk_size)

\* A sentence split that leaves out the last buffer.
split_chunk_flushed_only(chunk, chunk_size) ==
    IF Len(chunk) <= chunk_size THEN <<chunk>>
    ELSE sentence_loop(_split_sentences(chunk), 1,
                       [temp_chunk |-> <<>>, out |-> <<>>], chunk_size).out

\* What one paragraph-level chunk contributes to final_chunks.
split_chunk(chunk, chunk_size) ==
    IF Len(chunk) <= chunk_size THEN <<chunk>>
    ELSE LET st == sentence_loop(_split_sentences(chunk), 1,
                                 [temp_chunk |-> <<>>, out |-> <<>>], chunk_size)
         IN  IF strip(st.temp_chunk) # <<>>
             THEN Append(st.out, strip(st.temp_chunk))
             ELSE st.out

RECURSIVE final_loop(_, _)
final_loop(chunkList, chunk_size) ==
    IF chunkList = <<>> THEN <<>>
    ELSE split_chunk(Head(chunkList), chunk_size) \o final_loop(Tail(chunkList), chunk_size)

\* PDFProcessor.chunk_text
chunk_text(txt, chunk_size, chunk_overlap) ==
    final_loop(paragraph_chunks(txt, chunk_size, chunk_overlap), chunk_size)

\* ----------------------------------------------------------- extract_text
DefaultChunkSize == 1000
DefaultChunkOverlap == 200

\* str(n) for n >= 0.
RECURSIVE Decimal(_)
Decimal(n) ==
    LET digit == <<"0", "1", "2", "3", "4", "5", "6", "7", "8", "9">>[(n % 10) + 1]
    IN  IF n < 10 THEN <<digit>> ELSE Append(Decimal(n \div 10), digit)

\* f"[Page {page_num + 1}]\n{text}" for the page at 0-based index page_num.
page_block(page_num, page_text) ==
    <<"[", "P", "a", "g", "e", SP>> \o Decimal(page_num + 1) \o <<"]", NL>> \o page_text

\* The list full_text: one block per page whose text is not blank.
RECURSIVE page_blocks(_, _)
page_blocks(pages, page_num) ==
    IF page_num >= Len(pages) THEN <<>>
    ELSE (IF strip(pages[page_num + 1]) # <<>>
          THEN <<page_block(page_num, pages[page_num + 1])>>
          ELSE <<>>)
         \o page_blocks(pages, page_num + 1)

\* sep.join(parts)
RECURSIVE join(_, _)
join(parts, sep) ==
    IF parts = <<>> THEN <<>>
    ELSE IF Len(parts) = 1 THEN parts[1]
    ELSE parts[1] \o sep \o join(Tail(parts), sep)

\* PDFProcessor.extract_text on a file PyMuPDF opens (pdf.readable) or
\* rejects: the combined text and the page count, or the raised exception.
extract_text(pdf) ==
    IF ~pdf.readable THEN [raised |-> TRUE, text |-> <<>>, page_count |-> 0]
    ELSE [raised |-> FALSE,
          text |-> join(page_blocks(pdf.pages, 0), <<NL, NL>>),
          page_count |-> Len(pdf.pages)]

\* ------------------------------------------------------------ vector store
\* The embedding collaborator (SentenceTransformer.encode), as a
\* deterministic stub: the number of "q" characters of the text.
Embed(s) == Cardinality({i \in 1..Len(s) : s[i] = "q"})

\* The store's metric (squared L2) on the stub embeddings.
Distance(u, v) == (u - v) * (u - v)

\* A collection name the store rejects (get_collection and create_collection
\* both raise on it).
BadName == "?"

\* One collection name for every document.
shared_collection_name(document_id) == "documents"

\* The name of the collection of a document: name=document_id.
collection_name(document_id) == document_id

\* The vector store is vs = [client, collections]: client maps the name of
\* every collection of the persistent store to its list of entries,
\* collections is the set of keys of the cache self.collections.
has_collection(client, name) == name \in DOMAIN client

\* client.create_collection(name): an empty collection under name.
with_collection(client, name) ==
    [n \in (DOMAIN client) \cup {name} |-> IF n = name THEN <<>> ELSE client[n]]

\* client.delete_collection(name)
without_collection(client, name) ==
    [n \in (DOMAIN client) \ {name} |-> client[n]]

\* VectorStore.create_collection: the store after the call, and whether the
\* call raised (neither get_collection nor create_collection succeeded).
create_collection(vs, document_id) ==
    IF document_id \in vs.collections
    THEN [vs |-> vs, raised |-> FALSE]
    ELSE IF has_collection(vs.client, collection_name(document_id))
    THEN [vs |-> [vs EXCEPT !.collections = @ \cup {document_id}], raised |-> FALSE]
    ELSE IF collection_name(document_id) = BadName
    THEN [vs |-> vs, raised |-> TRUE]
    ELSE [vs |-> [client |-> with_collection(vs.client, collection_name(document_id)),
                  collections |-> vs.collections \cup {document_id}],
          raised |-> FALSE]

\* f"{document_id}_chunk_{i}"
chunk_id(document_id, i) == <<document_id, "_chunk_", i>>

\* The default metadata of chunk i (0-based).
chunk_metadata(document_id, i) == [chunk_index |-> i, document_id |-> document_id]

\* The entries collection.add receives for chunks.
chunk_entries(document_id, chunkList) ==
    [k \in 1..Len(chunkList) |->
        [id |-> chunk_id(document_id, k - 1),
         embedding |-> Embed(chunkList[k]),
         document |-> chunkList[k],
         metadata |-> chunk_metadata(document_id, k - 1)]]

\* An insert that keeps the first chunk when collection.add raises.
add_documents_partial(vs, document_id, chunkList, fault) ==
    IF chunkList = <<>> THEN [vs |-> vs, raised |-> FALSE]
    ELSE LET made == create_collection(vs, document_id)
             name == collection_name(document_id)
             entries == chunk_entries(document_id, chunkList)
         IN  IF made.raised \/ fault = "encode"
             THEN [vs |-> made.vs, raised |-> TRUE]
             ELSE IF fault = "add"
             THEN [vs |-> [made.vs EXCEPT !.client[name] = @ \o <<entries[1]>>],
                   raised |-> TRUE]
             ELSE [vs |-> [made.vs EXCEPT !.client[name] = @ \o entries],
                   raised |-> FALSE]

\* VectorStore.add_documents.  fault names the collaborator call that raises:
\* "none", "encode" (embedding_model.encode) or "add" (collection.add, which
\* stores nothing when it raises).
add_documents(vs, document_id, chunkList, fault) ==
    IF chunkList = <<>> THEN [vs |-> vs, raised |-> FALSE]
    ELSE LET made == create_collection(vs, document_id)
             name == collection_name(document_id)
         IN  IF made.raised \/ fault \in {"encode", "add"}
             THEN [vs |-> made.vs, raised |-> TRUE]
             ELSE [vs |-> [made.vs EXCEPT !.client[name] =
                                @ \o chunk_entries(document_id, chunkList)],
                   raised |-> FALSE]

\* n_results=collection.count(): every entry of the collection.
n_results_all(top_k, count) == count

\* n_results=min(top_k, collection.count())
n_results(top_k, count) == IF top_k <= count THEN top_k ELSE count

\* The entries of a collection nearest to a query embedding.
Nearest(entries, S, q) ==
    {i \in S : \A j \in S : Distance(q, entries[i].embedding)
                             <= Distance(q, entries[j].embedding)}

\* collection.query: every ranking of n entries by distance the store may
\* return (entries at equal distance come in either order); no entries for
\* n = 0.
RECURSIVE Rankings(_, _, _, _)
Rankings(entries, S, q, n) ==
    IF n <= 0 \/ S = {} THEN {<<>>}
    ELSE UNION {{<<i>> \o r : r \in Rankings(entries, S \ {i}, q, n - 1)} :
                i \in Nearest(entries, S, q)}

\* The formatted result for the entry ranked at one position.
formatted_result(entry, q) ==
    [content |-> entry.document,
     score |-> Distance(q, entry.embedding),
     metadata |-> entry.metadata]

\* VectorStore.search: the store after the call, every result list it may
\* return, and whether it may raise instead.  collection.query is called
\* outside the try block, and the source does not keep n_results positive:
\* a store that validates n_results (chromadb rejects a value that is
\* "negative, or zero") raises for 0, a lenient one returns no entries.
\* A cached handle whose collection the client no longer holds makes
\* collection.count() raise, outside the try block as well.
search(vs, document_id, query, top_k) ==
    LET made == create_collection(vs, document_id)
    IN  IF made.raised THEN [vs |-> made.vs, results |-> {<<>>}, may_raise |-> FALSE]
        ELSE IF ~has_collection(made.vs.client, collection_name(document_id))
        THEN [vs |-> made.vs, results |-> {}, may_raise |-> TRUE]
        ELSE LET entries == made.vs.client[collection_name(document_id)]
                 q == Embed(query)
                 n == n_results(top_k, Len(entries))
             IN  [vs |-> made.vs,
                  results |-> {[k \in 1..Len(r) |-> formatted_result(entries[r[k]], q)] :
                               r \in Rankings(entries, 1..Len(entries), q, n)},
                  may_raise |-> n = 0]

\* A delete that leaves the cached handle in self.collections.
delete_document_cached(vs, document_id) ==
    LET name == collection_name(document_id)
    IN  IF has_collection(vs.client, name)
        THEN [vs |-> [vs EXCEPT !.client = without_collection(@, name)], ok |-> TRUE]
        ELSE [vs |-> vs, ok |-> FALSE]

\* VectorStore.delete_document: the store after the call and its return
\* value (False when client.delete_collection raised).
delete_document(vs, document_id) ==
    LET uncached == [vs EXCEPT !.collections = @ \ {document_id}]
        name == collection_name(document_id)
    IN  IF has_collection(vs.client, name)
        THEN [vs |-> [uncached EXCEPT !.client = without_collection(@, name)],
              ok |-> TRUE]
        ELSE [vs |-> uncached, ok |-> FALSE]

\* --------------------------------------------------------------- generator
PrimaryModel == "llama-3.3-70b-versatile"
FallbackModel == "llama-3.1-8b-instant"
MaxTokens == 2048
HistoryWindow == 5

Levels == {"beginner", "student", "researcher"}

\* GroqService._get_system_prompt: the base prompt plus the text of the
\* level, the student text for a level the table does not hold.
_get_system_prompt(explanation_level) ==
    <<"base_prompt",
      IF explanation_level \in Levels THEN explanation_level ELSE "student">>

\* GroqService._format_context: per chunk, numbered from 1, the header
\* "[Context i]", the line "Source: page" when the metadata has a page, and
\* the content.
_format_context(chunkList) ==
    IF chunkList = <<>> THEN <<"No relevant context found.">>
    ELSE [i \in 1..Len(chunkList) |->
            [header |-> <<"[Context ", i, "]">>,
             source |-> IF "page" \in DOMAIN chunkList[i].metadata
                        THEN chunkList[i].metadata.page ELSE "",
             content |-> chunkList[i].content]]

\* chat_history[:5]: the first turns of the history.
oldest_turns(chat_history) == FirstChars(chat_history, HistoryWindow)

\* chat_history[-5:]: the turns of the history that are forwarded.
history_window(chat_history) == LastChars(chat_history, HistoryWindow)

\* The messages list: system prompt, forwarded history turns, final user
\* turn with the formatted context and the question.
build_messages(question, context_chunks, explanation_level, chat_history) ==
    <<[role |-> "system", content |-> _get_system_prompt(explanation_level)]>>
    \o [k \in 1..Len(history_window(chat_history)) |->
            [role |-> history_window(chat_history)[k].role,
             content |-> history_window(chat_history)[k].content]]
    \o <<[role |-> "user",
          content |-> [context |-> _format_context(context_chunks),
                       question |-> question]]>>

\* The first completions.create call.
primary_call(messages) ==
    [model |-> PrimaryModel, messages |-> messages,
     temperature |-> "0.3", max_tokens |-> MaxTokens, top_p |-> "0.9"]

\* A retry that drops the sampling parameters of the first call.
fallback_call_defaults(messages) ==
    [model |-> FallbackModel, messages |-> messages,
     temperature |-> "1.0", max_tokens |-> MaxTokens, top_p |-> "1.0"]

\* The completions.create call of the except branch.
fallback_call(messages) ==
    [model |-> FallbackModel, messages |-> messages,
     temperature |-> "0.3", max_tokens |-> MaxTokens, top_p |-> "0.9"]

\* response.choices[0].message.content of a call that succeeds (stub).
completion_text(call) == <<"answer by", call.model>>

\* GroqService.generate_answer.  primary_ok and fallback_ok say whether the
\* provider answers the call to the primary and to the fallback model.
\* Returns the calls issued, and the answer or the raised failure.
generate_answer(question, context_chunks, explanation_level, chat_history, primary_ok, fallback_ok) ==
    LET messages == build_messages(question, context_chunks, explanation_level,
                                   chat_history)
        first == primary_call(messages)
        second == fallback_call(messages)
    IN  IF primary_ok
        THEN [calls |-> <<first>>, raised |-> FALSE, answer |-> completion_text(first)]
        ELSE IF PrimaryModel # FallbackModel
        THEN IF fallback_ok
             THEN [calls |-> <<first, second>>, raised |-> FALSE,
                   answer |-> completion_text(second)]
             ELSE [calls |-> <<first, second>>, raised |-> TRUE, answer |-> <<>>]
        ELSE [calls |-> <<first>>, raised |-> TRUE, answer |-> <<>>]

\* ------------------------------------------------------------- RAG service
\* RAG_TOP_K as configured for the model's service (the default is 5).
TopK == 2
SourceChars == 200
MaxSources == 3

NoInfoAnswer == <<"I couldn't find relevant information in the document">>

\* `if not relevant_chunks`
no_chunks(relevant_chunks) == relevant_chunks = <<>>

\* Snippets cut at the first SourceChars - 1 characters.
snippet_short(content) == FirstChars(content, SourceChars - 1) \o <<".", ".", ".">>

\* chunk.get('content', '')[:200] + "..."
snippet(content) == FirstChars(content, SourceChars) \o <<".", ".", ".">>

\* The sources list: a snippet of each of the first MaxSources chunks.
source_snippets(relevant_chunks) ==
    [i \in 1..Len(FirstChars(relevant_chunks, MaxSources)) |->
        snippet(relevant_chunks[i].content)]

\* RAGService.query after vector_store.search returned relevant_chunks.
\* chat_history is the request's list (None is the empty list here: both
\* count as no history).
query_with(relevant_chunks, question, explanation_level, chat_history, primary_ok, fallback_ok) ==
    IF no_chunks(relevant_chunks)
    THEN [raised |-> FALSE, answer |-> NoInfoAnswer, sources |-> <<>>, calls |-> <<>>]
    ELSE LET history_dict == [k \in 1..Len(chat_history) |->
                                [role |-> chat_history[k].role,
                                 content |-> chat_history[k].content]]
             reply == generate_answer(question, relevant_chunks, explanation_level,
                                      history_dict, primary_ok, fallback_ok)
         IN  IF reply.raised
             THEN [raised |-> TRUE, answer |-> <<>>, sources |-> <<>>,
                   calls |-> reply.calls]
             ELSE [raised |-> FALSE, answer |-> reply.answer,
                   sources |-> source_snippets(relevant_chunks),
                   calls |-> reply.calls]

\* ------------------------------------------------------- requests (inputs)
\* Document ids: the ones uuid4 may return and clients may name.
DocIds == {"1", "2"}

\* The empty document id of a chat request.
NoId == ""

\* Pages of the long upload, and the filler characters of each page: every
\* page is longer than half of DefaultChunkSize, so each page starts a chunk.
MaxPages == 3
PageFill == (DefaultChunkSize \div 2) + 100

PageLetter(k) == <<"a", "b", "c", "d", "e", "f", "g", "h">>[((k - 1) % 8) + 1]

\* Page k of the long upload: k times "q", a space, then the filler.
LongPage(k) == [i \in 1..k |-> "q"] \o <<SP>> \o [i \in 1..PageFill |-> PageLetter(k)]

\* The PDF files uploads choose from, by name: one PyMuPDF cannot open, one
\* with no text layer, a one-line paper and a paper of MaxPages long pages.
PdfNames == {"corrupt", "scanned", "short", "long"}

PdfFile(name) ==
    CASE name = "corrupt" -> [readable |-> FALSE, pages |-> <<>>]
      [] name = "scanned" -> [readable |-> TRUE, pages |-> <<<<>>, <<NL, SP>>>>]
      [] name = "short"   -> [readable |-> TRUE, pages |-> <<<<"q", ".">>>>]
      [] name = "long"    -> [readable |-> TRUE,
                              pages |-> [k \in 1..MaxPages |-> LongPage(k)]]

\* extract_text and chunk_text(text) on each file, computed once.
Extracted == [name \in PdfNames |-> extract_text(PdfFile(name))]

Chunked == [name \in PdfNames |->
                chunk_text(Extracted[name].text, DefaultChunkSize, DefaultChunkOverlap)]

Filenames == {<<>>,
              <<"P", ".", "P", "d", "f">>,
              <<"p", ".", "t", "x", "t">>}

MAX_FILE_SIZE == 50 * 1024 * 1024

FileSizes == {MAX_FILE_SIZE, MAX_FILE_SIZE + 1}

Faults == {"none", "write", "encode", "add"}

\* Questions: blank, and one with 2 "q" (the stub embedding).
Questions == {<<SP>>, <<"q", "q", "?">>}

Turn(role, content) == [role |-> role, content |-> content]

\* The chat history of the requests of Spec (SpecGen varies it).
ChatHistories == {<<Turn("user", "h1"), Turn("assistant", "h2")>>}

\* The explanation level of the requests of Spec (SpecGen varies it).
ChatLevels == {"student"}

\* ---------------------------------------------------------------- endpoints
\* str.lower() on one character.
LowerChar(c) ==
    LET upper == <<"A", "B", "C", "D", "E", "F", "G", "H", "I", "J", "K", "L", "M",
                   "N", "O", "P", "Q", "R", "S", "T", "U", "V", "W", "X", "Y", "Z">>
        lower == <<"a", "b", "c", "d", "e", "f", "g", "h", "i", "j", "k", "l", "m",
                   "n", "o", "p", "q", "r", "s", "t", "u", "v", "w", "x", "y", "z">>
        at == {i \in 1..26 : upper[i] = c}
    IN  IF at = {} THEN c ELSE lower[CHOOSE i \in at : TRUE]

lower(s) == [i \in 1..Len(s) |-> LowerChar(s[i])]

endswith(s, suffix) == LastChars(s, Len(suffix)) = suffix

\* `not file.filename` alone: a test that looks at no extension.
bad_filename_empty(filename) == filename = <<>>

\* `not file.filename or not file.filename.lower().endswith('.pdf')`
bad_filename(filename) ==
    filename = <<>> \/ ~endswith(lower(filename), <<".", "p", "d", "f">>)

\* The fields of a response; each handler fills the ones it returns.
Response(op, document_id, status, detail) ==
    [op |-> op, document_id |-> document_id, status |-> status, detail |-> detail,
     answer |-> <<>>, sources |-> <<>>, retrieved |-> <<>>, calls |-> <<>>,
     question |-> <<>>, pages |-> 0, chunks |-> 0,
     temp_created |-> FALSE, temp_exists |-> FALSE]

\* A text test that rejects nothing.
unextractable_never(text) == FALSE

\* `not text` alone: a text test that misses whitespace-only text.
unextractable_empty_only(text) == text = <<>>

\* `not text or not text.strip()`
unextractable(text) == text = <<>> \/ strip(text) = <<>>

\* upload_document against the results of its collaborators.  file =
\* [filename, size]; document_id is the uuid4 the handler draws; extracted is
\* the outcome of pdf_processor.extract_text and chunkList the list
\* pdf_processor.chunk_text returns; fault names the call that raises: "none",
\* "write" (temp_file.write, after NamedTemporaryFile created the file and
\* before temp_file_path is set), "encode" or "add" (inside add_documents);
\* unlink_ok says whether os.unlink removes the temp file (the response
\* records whether the file exists when the handler returns).  Returns the
\* store and the response.
upload_with(vs, file, document_id, extracted, chunkList, fault, unlink_ok) ==
    IF bad_filename(file.filename)
    THEN [vs |-> vs,
          response |-> Response("upload", NoId, 400, "Only PDF files are supported")]
    ELSE IF file.size > MAX_FILE_SIZE
    THEN [vs |-> vs,
          response |-> Response("upload", NoId, 400, "File size exceeds maximum")]
    ELSE LET added == add_documents(vs, document_id, chunkList, fault)
             reply(status, detail) ==
                 [Response("upload", document_id, status, detail)
                     EXCEPT !.temp_created = TRUE, !.temp_exists = ~unlink_ok]
         IN  IF fault = "write"
             THEN [vs |-> vs,
                   response |-> [reply(500, "Failed to process document")
                                    EXCEPT !.temp_exists = TRUE]]
             ELSE IF extracted.raised
             THEN [vs |-> vs,
                   response |-> reply(500, "Failed to process document")]
             ELSE IF unextractable(extracted.text)
             THEN [vs |-> vs,
                   response |-> reply(400, "Could not extract text from PDF")]
             ELSE IF chunkList = <<>>
             THEN [vs |-> vs,
                   response |-> reply(500, "Failed to chunk document text")]
             ELSE IF added.raised
             THEN [vs |-> added.vs,
                   response |-> reply(500, "Failed to process document")]
             ELSE [vs |-> added.vs,
                   response |-> [reply(201, "Document processed successfully")
                                    EXCEPT !.pages = extracted.page_count,
                                           !.chunks = Len(chunkList)]]

\* upload_document with the repository's PDFProcessor.  file = [filename,
\* size, pdf].
upload_document(vs, file, document_id, fault, unlink_ok) ==
    upload_with(vs, file, document_id, Extracted[file.pdf], Chunked[file.pdf],
                fault, unlink_ok)

\* The models of the completion calls a query issued, in order.
models_called(calls) == [k \in 1..Len(calls) |-> calls[k].model]

\* chat.  Returns the store and every response the handler may give (one per
\* ranking the store may return, and the 500 of a search that raises).
chat(vs, document_id, question, explanation_level, chat_history, primary_ok, fallback_ok) ==
    LET answered(status, detail) ==
            [Response("chat", document_id, status, detail) EXCEPT !.question = question]
    IN  IF strip(question) = <<>>
        THEN [vs |-> vs, responses |-> {answered(400, "Question cannot be empty")}]
        ELSE IF document_id = NoId
        THEN [vs |-> vs, responses |-> {answered(400, "Document ID is required")}]
        ELSE LET found == search(vs, document_id, question, TopK)
                 failed == answered(500, "Failed to process query")
                 reply(relevant_chunks) ==
                     LET result == query_with(relevant_chunks, question,
                                              explanation_level, chat_history,
                                              primary_ok, fallback_ok)
                     IN  IF result.raised
                         THEN [failed EXCEPT !.retrieved = relevant_chunks,
                                             !.calls = models_called(result.calls)]
                         ELSE [answered(200, "")
                                  EXCEPT !.answer = result.answer,
                                         !.sources = result.sources,
                                         !.retrieved = relevant_chunks,
                                         !.calls = models_called(result.calls)]
             IN  [vs |-> found.vs,
                  responses |-> {reply(r) : r \in found.results}
                                \cup (IF found.may_raise THEN {failed} ELSE {})]

\* The DELETE handler: 204 when delete_document returned True, else 404.
delete_endpoint(vs, document_id) ==
    LET done == delete_document(vs, document_id)
    IN  [vs |-> done.vs,
         response |-> IF done.ok
                      THEN Response("delete", document_id, 204, "")
                      ELSE Response("delete", document_id, 404, "not found")]

\* ------------------------------------------------------------------ state
VARIABLES
    text,           \* chunk_text: the input text
    chunk_size,     \* chunk_text: its chunk_size argument
    chunk_overlap,  \* chunk_text: its chunk_overlap argument
    chunks,         \* chunk_text: the paragraph-level list `chunks`
    final_chunks,   \* chunk_text: the returned list
    cpc,            \* chunk_text: "call" before the call, "done" after it
    client,         \* VectorStore.client: collection name -> entries
    collections,    \* VectorStore.collections: the cached document ids
    uploaded,       \* document id -> file, for the uploads answered 201
    deleted,        \* the uploaded document ids a delete answered 204 for
    failed,         \* the ids of the uploads that failed in add_documents
    response,       \* the response of the last request
    gen             \* SpecGen: the last RAGService.query call and its result;
                    \* SpecUpload: the upload request, the collaborators' results

chunkVars == <<text, chunk_size, chunk_overlap, chunks, final_chunks, cpc>>

serviceVars == <<client, collections, uploaded, deleted, failed, response>>

vars == <<chunkVars, serviceVars, gen>>

\* The values of the variables a specification does not use.
ChunkIdle ==
    /\ text = <<>> /\ chunk_size = DefaultChunkSize
    /\ chunk_overlap = DefaultChunkOverlap
    /\ chunks = <<>> /\ final_chunks = <<>> /\ cpc = "idle"

ServiceStart ==
    /\ client = [n \in {} |-> <<>>]
    /\ collections = {}
    /\ uploaded = [d \in {} |-> "none"]
    /\ deleted = {}
    /\ failed = {}
    /\ response = Response("start", NoId, 0, "")

GenIdle == gen = [op |-> "idle"]

\* --------------------------------------------------------------- SpecChunk
InitChunk ==
    /\ text \in TextsUpTo(MaxTextLen)
    /\ chunk_size \in 1..MaxChunkSize
    /\ chunk_overlap \in 0..MaxOverlap
    /\ chunks = <<>>
    /\ final_chunks = <<>>
    /\ cpc = "call"
    /\ ServiceStart
    /\ GenIdle

\* One call of chunk_text(text, chunk_size, chunk_overlap).
ChunkText ==
    /\ cpc = "call"
    /\ chunks' = paragraph_chunks(text, chunk_size, chunk_overlap)
    /\ final_chunks' = chunk_text(text, chunk_size, chunk_overlap)
    /\ cpc' = "done"
    /\ UNCHANGED <<text, chunk_size, chunk_overlap, serviceVars, gen>>

NextChunk == ChunkText

SpecChunk == InitChunk /\ [][NextChunk]_vars

\* -------------------------------------------------------------------- Spec
\* The service after start-up on an empty persist directory.
Init == ChunkIdle /\ ServiceStart /\ GenIdle

VS == [client |-> client, collections |-> collections]

\* Ids that name nothing so far: no collection in the store, no upload.
UnusedIds ==
    {d \in DocIds : /\ ~has_collection(client, collection_name(d))
                    /\ d \notin (DOMAIN uploaded) \cup failed}

\* uuid.uuid4(): an id that names nothing so far (such ids are
\* interchangeable, so one of them stands for all).
uuid4 == IF "1" \in UnusedIds THEN "1" ELSE "2"

\* Inputs the handler never reads on its path are held at one value.
UploadInputsRead(filename, size, pdf, fault, unlink_ok) ==
    /\ (bad_filename(filename) \/ size > MAX_FILE_SIZE)
            => (pdf = "corrupt" /\ fault = "none" /\ unlink_ok)
    /\ fault = "write" => (pdf = "corrupt" /\ unlink_ok)
    /\ fault \in {"encode", "add"} => Chunked[pdf] # <<>>

\* POST /upload
Upload ==
    /\ UnusedIds # {}
    /\ \E filename \in Filenames, size \in FileSizes, pdf \in PdfNames,
          fault \in Faults, unlink_ok \in BOOLEAN :
        /\ UploadInputsRead(filename, size, pdf, fault, unlink_ok)
        /\ LET document_id == uuid4
               out == upload_document(VS, [filename |-> filename, size |-> size,
                                           pdf |-> pdf],
                                      document_id, fault, unlink_ok)
           IN  /\ client' = out.vs.client
               /\ collections' = out.vs.collections
               /\ response' = out.response
               /\ uploaded' = IF out.response.status = 201
                              THEN [d \in (DOMAIN uploaded) \cup {document_id} |->
                                       IF d = document_id THEN pdf ELSE uploaded[d]]
                              ELSE uploaded
               /\ failed' = IF has_collection(out.vs.client, collection_name(document_id))
                                /\ out.response.status # 201
                             THEN failed \cup {document_id} ELSE failed
               /\ UNCHANGED <<deleted, chunkVars, gen>>

\* Inputs the handler never reads on its path are held at one value.
ChatInputsRead(document_id, question, primary_ok, fallback_ok) ==
    /\ (strip(question) = <<>> \/ document_id = NoId) => (primary_ok /\ fallback_ok)
    /\ strip(question) = <<>> => document_id = NoId
    /\ primary_ok => fallback_ok

\* POST /chat
Chat ==
    \E document_id \in DocIds \cup {NoId, BadName}, question \in Questions,
       explanation_level \in ChatLevels, chat_history \in ChatHistories,
       primary_ok \in BOOLEAN, fallback_ok \in BOOLEAN :
        /\ ChatInputsRead(document_id, question, primary_ok, fallback_ok)
        /\ LET out == chat(VS, document_id, question, explanation_level, chat_history,
                           primary_ok, fallback_ok)
           IN  /\ client' = out.vs.client
               /\ collections' = out.vs.collections
               /\ response' \in out.responses
               /\ UNCHANGED <<uploaded, deleted, failed, chunkVars, gen>>

\* DELETE /documents/{document_id}
Delete ==
    \E document_id \in DocIds \cup {BadName} :
        LET out == delete_endpoint(VS, document_id)
        IN  /\ client' = out.vs.client
            /\ collections' = out.vs.collections
            /\ response' = out.response
            /\ deleted' = IF out.response.status = 204 /\ document_id \in DOMAIN uploaded
                          THEN deleted \cup {document_id} ELSE deleted
            /\ UNCHANGED <<uploaded, failed, chunkVars, gen>>

\* The process restarts: VectorStore.__init__ opens the persisted store with
\* an empty cache.
Restart ==
    /\ collections' = {}
    /\ response' = Response("restart", NoId, 0, "")
    /\ UNCHANGED <<client, uploaded, deleted, failed, chunkVars, gen>>

Next == Upload \/ Chat \/ Delete \/ Restart

Spec == Init /\ [][Next]_vars

\* -------------------------------------------------------------- SpecUpload
\* One upload request handled against the results its collaborators give:
\* the handler reaches pdf_processor and rag_service through the handles
\* initialize_services stored, so the extraction outcome and the chunk list are
\* inputs here, as are the file and the faults.  chunk_text is also applied
\* to the extracted text on its own (ChunkText).
UploadFilenames ==
    Filenames \cup {<<"p", "d", "f">>, <<"a", ".", "P", "D", "F">>,
                    <<"a", ".", "p", "d", "f", ".", "t", "x", "t">>}

\* Outcomes of extract_text: the call raises, or returns a text.
ExtractedTexts == {<<>>, <<SP>>, <<NL, SP, NL>>, <<"a", ".">>, <<"q", ".", NL, NL, "a">>}

ExtractionOutcomes ==
    {[raised |-> TRUE, text |-> <<>>, page_count |-> 0]}
    \cup {[raised |-> FALSE, text |-> t, page_count |-> 1] : t \in ExtractedTexts}

\* What the processor's chunk_text returns: the list the repository's
\* chunk_text computes, or no chunk at all (the case of `if not chunks`).
Chunkers == {"chunk_text", "no_chunks"}

chunks_returned(chunker, txt) ==
    IF chunker = "chunk_text"
    THEN chunk_text(txt, DefaultChunkSize, DefaultChunkOverlap)
    ELSE <<>>

\* The stores the request may find: empty, or holding document "2".
StartStores ==
    LET empty == [client |-> [n \in {} |-> <<>>], collections |-> {}]
    IN  {empty, add_documents(empty, "2", Chunked["short"], "none").vs}

InitUpload ==
    /\ \E extracted \in ExtractionOutcomes, start \in StartStores,
          filename \in UploadFilenames, size \in FileSizes, chunker \in Chunkers,
          fault \in Faults, unlink_ok \in BOOLEAN :
        /\ text = extracted.text
        /\ client = start.client
        /\ collections = start.collections
        /\ gen = [op |-> "upload_call", start |-> start,
                  filename |-> filename, size |-> size,
                  extracted |-> extracted, chunker |-> chunker,
                  fault |-> fault, unlink_ok |-> unlink_ok,
                  chunks |-> <<>>]
    /\ chunk_size = DefaultChunkSize
    /\ chunk_overlap = DefaultChunkOverlap
    /\ chunks = <<>>
    /\ final_chunks = <<>>
    /\ cpc = "call"
    /\ uploaded = [d \in {} |-> "none"]
    /\ deleted = {}
    /\ failed = {}
    /\ response = Response("start", NoId, 0, "")

\* POST /upload, the handler drawing document id "1".
HandleUpload ==
    /\ gen.op = "upload_call"
    /\ LET chunkList == chunks_returned(gen.chunker, gen.extracted.text)
           out == upload_with(VS, [filename |-> gen.filename, size |-> gen.size],
                              "1", gen.extracted, chunkList, gen.fault, gen.unlink_ok)
       IN  /\ client' = out.vs.client
           /\ collections' = out.vs.collections
           /\ response' = out.response
           /\ gen' = [gen EXCEPT !.op = "upload_done", !.chunks = chunkList]
    /\ UNCHANGED <<uploaded, deleted, failed, chunkVars>>

NextUpload == HandleUpload \/ ChunkText

SpecUpload == InitUpload /\ [][NextUpload]_vars

\* ----------------------------------------------------------------- SpecGen
\* RAGService.query from the point where vector_store.search has returned:
\* the retrieved list, the request and the provider's behaviour are inputs.
MaxRetrieved == 4
MaxHistory == 6

\* Retrieved chunks by length of content: short, exactly SourceChars, longer.
ContentLengths == {3, SourceChars, SourceChars + 1}

RetrievedChunk(len) ==
    [content |-> [k \in 1..len |-> IF k = len THEN "z" ELSE "c"],
     score |-> 0,
     metadata |-> chunk_metadata("1", 0)]

RECURSIVE ListsUpTo(_, _)
ListsUpTo(S, n) ==
    IF n = 0 THEN {<<>>}
    ELSE LET shorter == ListsUpTo(S, n - 1)
         IN  shorter \cup {Append(l, x) : l \in {m \in shorter : Len(m) = n - 1}, x \in S}

RetrievedLists == ListsUpTo({RetrievedChunk(len) : len \in ContentLengths}, MaxRetrieved)

\* The history of n turns: alternating roles, each turn with its own content.
HistoryOf(n) ==
    [k \in 1..n |-> Turn(IF k % 2 = 1 THEN "user" ELSE "assistant", <<"turn", k>>)]

GenHistories == {HistoryOf(n) : n \in 0..MaxHistory}

GenQuestion == <<"q", "?">>

InitGen ==
    /\ ChunkIdle
    /\ ServiceStart
    /\ \E relevant_chunks \in RetrievedLists, explanation_level \in Levels,
          chat_history \in GenHistories, primary_ok \in BOOLEAN, fallback_ok \in BOOLEAN :
        /\ primary_ok => fallback_ok
        /\ gen = [op |-> "call", relevant_chunks |-> relevant_chunks,
                  question |-> GenQuestion, explanation_level |-> explanation_level,
                  chat_history |-> chat_history,
                  primary_ok |-> primary_ok, fallback_ok |-> fallback_ok,
                  raised |-> FALSE, answer |-> <<>>, sources |-> <<>>, calls |-> <<>>]

\* One call of RAGService.query after the search.
Query ==
    /\ gen.op = "call"
    /\ LET result == query_with(gen.relevant_chunks, gen.question,
                                gen.explanation_level, gen.chat_history,
                                gen.primary_ok, gen.fallback_ok)
       IN  gen' = [gen EXCEPT !.op = "done", !.raised = result.raised,
                              !.answer = result.answer, !.sources = result.sources,
                              !.calls = result.calls]
    /\ UNCHANGED <<chunkVars, serviceVars>>

NextGen == Query

SpecGen == InitGen /\ [][NextGen]_vars


\* ------------------------------------------------------ claims: chunk_text
\* Index in final_chunks of the first piece of paragraph-level chunk k.
RECURSIVE pieces_before(_)
pieces_before(k) ==
    IF k <= 1 THEN 0
    ELSE pieces_before(k - 1) + Len(split_chunk(chunks[k - 1], chunk_size))

FirstPieceIndex(k) == pieces_before(k) + 1

\* C1: every chunk chunk_text returns is at most chunk_size long, unless it
\* consists of exactly one sentence that is itself longer than chunk_size.
C1_ChunkWithinSize ==
    cpc = "done" =>
        \A i \in 1..Len(final_chunks) :
            \/ Len(final_chunks[i]) <= chunk_size
            \/ Len(_split_sentences(final_chunks[i])) = 1

\* C2 as stated: with chunk_overlap > 0, the last chunk_overlap characters
\* of every chunk flushed by the paragraph loop (leading whitespace cut) are
\* the leading characters of the chunk that follows it in the output.
\* Stated for the usual configurations, chunk_overlap < chunk_size, and for
\* outputs in which every chunk is within chunk_size.
C2_OverlapAlwaysLeads ==
    (/\ cpc = "done"
     /\ 0 < chunk_overlap /\ chunk_overlap < chunk_size
     /\ \A i \in 1..Len(final_chunks) : Len(final_chunks[i]) <= chunk_size) =>
        \A k \in 1..(Len(chunks) - 1) :
            IsPrefix(lstrip(LastChars(chunks[k], chunk_overlap)),
                     final_chunks[FirstPieceIndex(k + 1)])

\* C2 amended: the same, for the flushes whose following buffer (overlap,
\* blank line, paragraphs) is at most chunk_size long and so is emitted
\* without sentence re-splitting.
C2_OverlapLeadsUnsplit ==
    (cpc = "done" /\ chunk_overlap > 0) =>
        \A k \in 1..(Len(chunks) - 1) :
            Len(chunks[k + 1]) <= chunk_size =>
                /\ final_chunks[FirstPieceIndex(k + 1)] = chunks[k + 1]
                /\ IsPrefix(lstrip(LastChars(chunks[k], chunk_overlap)),
                            final_chunks[FirstPieceIndex(k + 1)])

\* A flush whose overlap is a proper, non-uniform tail of the flushed chunk
\* and whose following buffer is emitted unsplit.
C2_Witness ==
    /\ cpc = "done"
    /\ chunk_overlap > 0
    /\ Len(chunks) >= 2
    /\ Len(chunks[1]) > chunk_overlap
    /\ Len(chunks[2]) <= chunk_size
    /\ LastChars(chunks[1], chunk_overlap) # FirstChars(chunks[1], chunk_overlap)
    /\ final_chunks = chunks

\* ------------------------------------------------------- claims: documents
\* The step is a chat request for document d that passed validation.
ChatStep(d) ==
    /\ response'.op = "chat"
    /\ response'.document_id = d
    /\ response'.status # 400

\* The step is a delete request for document d.
DeleteStep(d) ==
    /\ response'.op = "delete"
    /\ response'.document_id = d

\* The chunks the namespace of d holds.
Indexed(d) ==
    IF has_collection(client, collection_name(d)) THEN client[collection_name(d)] ELSE <<>>

\* C3: a delete of a document id that no upload ever drew, or that was
\* uploaded and is already deleted, answers 404 and leaves the store and the
\* collection cache as they were, whatever requests came before.
C3_DeleteUnknownNotFound ==
    [][\A d \in DocIds :
          (DeleteStep(d) /\ (d \notin (DOMAIN uploaded) \cup failed \/ d \in deleted)) =>
              /\ response'.status = 404
              /\ client' = client
              /\ collections' = collections]_vars

\* C4: once an uploaded document is deleted, every later query for its id
\* retrieves nothing and answers 200 with the fixed no-information answer and
\* no sources.
C4_DeletedAnswersNoInfo ==
    [][\A d \in deleted :
          ChatStep(d) =>
              /\ response'.status = 200
              /\ response'.retrieved = <<>>
              /\ response'.answer = NoInfoAnswer
              /\ response'.sources = <<>>]_vars

\* C5: a query for a document id whose namespace holds no chunk (absent, or
\* created and empty) answers with an empty retrieval, the fixed
\* no-information answer and no sources, and issues no completion call.
C5_EmptyNamespaceNoInfo ==
    [][\A d \in DocIds :
          (ChatStep(d) /\ Indexed(d) = <<>>) =>
              /\ response'.retrieved = <<>>
              /\ response'.calls = <<>>
              /\ response'.status = 200 /\ response'.answer = NoInfoAnswer
              /\ response'.sources = <<>>]_vars

\* What the queries for document d return in the current state.
Answers(d) ==
    [q \in {x \in Questions : strip(x) # <<>>} |->
        LET found == search(VS, d, q, TopK)
        IN  [results |-> found.results, may_raise |-> found.may_raise]]

\* Every chunk of the last chat response was indexed by the upload of the
\* document the request named.
C9_OwnChunksOnly ==
    response.op = "chat" =>
        \A k \in 1..Len(response.retrieved) :
            LET d == response.document_id
                hit == response.retrieved[k]
            IN  /\ hit.metadata.document_id = d
                /\ d \in DOMAIN uploaded
                /\ \E i \in 1..Len(Chunked[uploaded[d]]) :
                      /\ hit.content = Chunked[uploaded[d]][i]
                      /\ hit.metadata.chunk_index = i - 1

\* C9: searches never cross documents: the chunks a query for d returns were
\* indexed by the upload of d, and a request on another id leaves what the
\* queries for d return unchanged.
C9_NoCrossing ==
    /\ []C9_OwnChunksOnly
    /\ [][\A d \in DocIds : response'.document_id # d => Answers(d)' = Answers(d)]_vars

\* Both documents are indexed and a query for the second returned chunks.
C9_Witness ==
    /\ DOMAIN uploaded = DocIds /\ deleted = {}
    /\ response.op = "chat" /\ response.document_id = "2"
    /\ Len(response.retrieved) >= 1

\* C10: a query for a document indexed with N chunks returns min(TopK, N)
\* results, nearest to the question's embedding first, each with the text and
\* the metadata of the chunk it is; the chunk uniquely nearest is first.
C10_NearestFirst ==
    (/\ response.op = "chat" /\ response.status \in {200, 500}
     /\ response.document_id \in (DOMAIN uploaded) \ deleted) =>
        LET d == response.document_id
            stored == Chunked[uploaded[d]]
            N == Len(stored)
            q == Embed(response.question)
            r == response.retrieved
            far(i) == (q - Embed(stored[i])) * (q - Embed(stored[i]))
            at(k) == r[k].metadata.chunk_index + 1
        IN  /\ Len(r) = (IF TopK <= N THEN TopK ELSE N)
            /\ \A k \in 1..Len(r) :
                  /\ at(k) \in 1..N
                  /\ r[k] = [content |-> stored[at(k)], score |-> far(at(k)),
                             metadata |-> [chunk_index |-> at(k) - 1, document_id |-> d]]
            /\ \A k, l \in 1..Len(r) : k < l => (at(k) # at(l) /\ r[k].score <= r[l].score)
            /\ \A i \in 1..N : (\A k \in 1..Len(r) : at(k) # i) => far(i) >= r[Len(r)].score
            /\ \A i \in 1..N : (\A j \in (1..N) \ {i} : far(i) < far(j)) => at(1) = i

\* A query on a document of more than TopK chunks whose nearest chunk is not
\* the first one stored.
C10_Witness ==
    /\ response.op = "chat" /\ response.status = 200
    /\ response.document_id \in (DOMAIN uploaded) \ deleted
    /\ Len(Chunked[uploaded[response.document_id]]) > TopK
    /\ Len(response.retrieved) = TopK
    /\ response.retrieved[1].metadata.chunk_index = 1
    /\ response.retrieved[1].score < response.retrieved[2].score

\* ------------------------------------------------------- claims: generator
\* The sampling parameters of the completion calls.
C6_Params(call) ==
    call.temperature = "0.3" /\ call.max_tokens = 2048 /\ call.top_p = "0.9"

\* C6: the primary model is called first; only when that call fails is the
\* fallback model called, once, with the same messages and parameters; the
\* answer is that of the call that succeeded, and the query raises exactly
\* when both calls fail; no query issues more than two calls.
C6_PrimaryThenOneFallback ==
    (gen.op = "done" /\ gen.relevant_chunks # <<>>) =>
        /\ Len(gen.calls) \in {1, 2}
        /\ gen.calls[1].model = "llama-3.3-70b-versatile"
        /\ C6_Params(gen.calls[1])
        /\ gen.primary_ok =>
              /\ Len(gen.calls) = 1
              /\ ~gen.raised
              /\ gen.answer = completion_text(gen.calls[1])
        /\ ~gen.primary_ok =>
              /\ Len(gen.calls) = 2
              /\ gen.calls[2].model = "llama-3.1-8b-instant"
              /\ gen.calls[2].messages = gen.calls[1].messages
              /\ C6_Params(gen.calls[2])
              /\ gen.fallback_ok => (~gen.raised /\ gen.answer = completion_text(gen.calls[2]))
              /\ ~gen.fallback_ok => gen.raised

\* The primary call failed and the fallback's answer was returned.
C6_Witness ==
    /\ gen.op = "done"
    /\ ~gen.primary_ok /\ gen.fallback_ok
    /\ Len(gen.calls) = 2
    /\ ~gen.raised
    /\ Len(gen.chat_history) >= 1

\* C7: the messages sent are the system prompt, the last min(5, n) turns of
\* the n-turn history in order with role and content unchanged, and one user
\* turn with the context and the question.
C7_LastFiveTurns ==
    (gen.op = "done" /\ gen.calls # <<>>) =>
        LET messages == gen.calls[1].messages
            n == Len(gen.chat_history)
            m == IF n < 5 THEN n ELSE 5
        IN  /\ Len(messages) = m + 2
            /\ messages[1] = [role |-> "system",
                              content |-> _get_system_prompt(gen.explanation_level)]
            /\ \A k \in 1..m : messages[1 + k] = gen.chat_history[n - m + k]
            /\ messages[m + 2].role = "user"
            /\ messages[m + 2].content.question = gen.question
            /\ messages[m + 2].content.context = _format_context(gen.relevant_chunks)

\* A query with a history of more than 5 turns at level researcher.
C7_Witness ==
    /\ gen.op = "done"
    /\ Len(gen.chat_history) > 5
    /\ gen.explanation_level = "researcher"
    /\ gen.calls # <<>>
    /\ Len(gen.calls[1].messages) = 7

\* C8: a query that succeeds with r >= 1 retrieved chunks returns min(3, r)
\* sources, the i-th being the first 200 characters of the i-th chunk and
\* then "...", so at most 3 sources of at most 203 characters.
C8_SourcesAreSnippets ==
    (gen.op = "done" /\ ~gen.raised /\ gen.relevant_chunks # <<>>) =>
        LET r == Len(gen.relevant_chunks)
            head(c) == [k \in 1..(IF Len(c) < 200 THEN Len(c) ELSE 200) |-> c[k]]
        IN  /\ Len(gen.sources) = (IF r < 3 THEN r ELSE 3)
            /\ \A i \in 1..Len(gen.sources) :
                  /\ gen.sources[i] = head(gen.relevant_chunks[i].content) \o <<".", ".", ".">>
                  /\ Len(gen.sources[i]) <= 203

\* A successful query with more than 3 chunks whose first is longer than 200
\* characters and whose second is shorter.
C8_Witness ==
    /\ gen.op = "done" /\ ~gen.raised
    /\ Len(gen.relevant_chunks) > 3
    /\ Len(gen.relevant_chunks[1].content) > 200
    /\ Len(gen.relevant_chunks[2].content) < 200
    /\ Len(gen.sources) = 3
    /\ Len(gen.sources[1]) = 203

\* ---------------------------------------------------- claims: vector store
\* C11: the namespace of a document holds all the chunks of its upload, in
\* order, or none; the namespace of an upload that failed while embedding or
\* inserting holds none.
C11_AllOrNothing ==
    \A d \in DocIds :
        /\ \/ Indexed(d) = <<>>
           \/ /\ d \in DOMAIN uploaded
              /\ Len(Indexed(d)) = Len(Chunked[uploaded[d]])
              /\ \A k \in 1..Len(Indexed(d)) :
                    Indexed(d)[k].document = Chunked[uploaded[d]][k]
        /\ d \in failed => Indexed(d) = <<>>

\* One upload failed in add_documents after its namespace was created, and
\* another indexed a document of several chunks.
C11_Witness ==
    \E d, e \in DocIds :
        /\ d \in failed /\ has_collection(client, collection_name(d))
        /\ e \in (DOMAIN uploaded) \ deleted
        /\ Len(Indexed(e)) > 1

\* C12: a query for a document whose namespace is not in the store (never
\* created, or removed by a delete) gets an empty result list from the
\* search, and no error.
C12_AbsentNamespaceNoError ==
    [][\A d \in DocIds :
          (ChatStep(d) /\ ~has_collection(client, collection_name(d))) =>
              /\ response'.status # 500
              /\ response'.retrieved = <<>>]_vars

\* C17: every document id in the collections cache names a collection the
\* store holds.
C17_CachedCollectionsExist ==
    \A d \in collections : collection_name(d) \in DOMAIN client

\* A document was deleted while another id was cached, and the deleted id
\* was queried and cached again afterwards.
C17_Witness ==
    \E d, e \in DocIds :
        /\ d # e
        /\ d \in deleted /\ d \in collections
        /\ e \in collections

\* ------------------------------------------- claims: chunk_text, coverage
\* The characters of s that are not whitespace, in order.
NonSpace(s) == SelectSeq(s, LAMBDA c : ~IsSpace(c))

\* The chunks of a list one after the other.
RECURSIVE Concatenated(_)
Concatenated(chunkList) ==
    IF chunkList = <<>> THEN <<>>
    ELSE Head(chunkList) \o Concatenated(Tail(chunkList))

\* p[i..] is a subsequence of s[j..].
RECURSIVE SubsequenceFrom(_, _, _, _)
SubsequenceFrom(p, i, s, j) ==
    IF i > Len(p) THEN TRUE
    ELSE IF j > Len(s) THEN FALSE
    ELSE IF p[i] = s[j] THEN SubsequenceFrom(p, i + 1, s, j + 1)
    ELSE SubsequenceFrom(p, i, s, j + 1)

\* C18: the non-whitespace characters of the text are a subsequence of the
\* chunks taken in order, no chunk is empty or whitespace-only, and a text
\* with a non-whitespace character yields at least one chunk.
C18_NoTextLost ==
    cpc = "done" =>
        /\ SubsequenceFrom(NonSpace(text), 1, Concatenated(final_chunks), 1)
        /\ \A i \in 1..Len(final_chunks) : NonSpace(final_chunks[i]) # <<>>
        /\ NonSpace(text) # <<>> => final_chunks # <<>>

\* A text of several paragraphs cut with overlap and re-split by sentences:
\* the chunks repeat some of the text.
C18_Witness ==
    /\ cpc = "done"
    /\ chunk_overlap > 0
    /\ Len(chunks) >= 2
    /\ Len(final_chunks) > Len(chunks)
    /\ Len(NonSpace(Concatenated(final_chunks))) > Len(NonSpace(text))


\* ------------------------------------------------------- upload requests
\* The request of SpecUpload has been handled.
UploadDone == gen.op = "upload_done"

\* The filename ends in ".pdf" in any letter case.
EndsInPdf(f) ==
    LET n == Len(f)
    IN  /\ n >= 4
        /\ f[n - 3] = "."
        /\ f[n - 2] \in {"p", "P"}
        /\ f[n - 1] \in {"d", "D"}
        /\ f[n] \in {"f", "F"}

\* The request passed the filename and size tests.
Accepted == EndsInPdf(gen.filename) /\ gen.size <= 50 * 1024 * 1024

\* The handler got a text from extract_text: the request was accepted, the
\* temp file was written and the extraction did not raise.
TextExtracted == Accepted /\ gen.fault # "write" /\ ~gen.extracted.raised

\* C13: on every exit path of an upload after the temp file was created, the
\* temp file no longer exists when the operation returns (here even granting
\* that os.unlink itself succeeds whenever it is called).
C13_TempFileRemoved ==
    (UploadDone /\ response.temp_created /\ gen.unlink_ok) => ~response.temp_exists

\* C14: chunk_text gives no chunk for empty or whitespace-only text, and an
\* upload whose extracted text is empty or whitespace-only is rejected with
\* the store as the request found it: no collection for its document id, no
\* chunk added.
C14_BlankTextNotIndexed ==
    /\ (cpc = "done" /\ NonSpace(text) = <<>>) => final_chunks = <<>>
    /\ (UploadDone /\ TextExtracted /\ NonSpace(gen.extracted.text) = <<>>) =>
            /\ response.status = 400
            /\ VS = gen.start
            /\ ~has_collection(client, collection_name("1"))
            /\ "1" \notin collections

\* C14 witness: a whitespace-only text of three characters was chunked to
\* nothing and its upload rejected against a store holding another document.
C14_Witness ==
    /\ UploadDone
    /\ cpc = "done"
    /\ TextExtracted
    /\ Len(gen.extracted.text) = 3
    /\ NonSpace(gen.extracted.text) = <<>>
    /\ final_chunks = <<>>
    /\ response.status = 400
    /\ DOMAIN client # {}

C16_RejectedBeforeProcessing ==
    (UploadDone /\ ~Accepted) =>
        /\ response.status = 400
        /\ ~response.temp_created
        /\ ~response.temp_exists
        /\ response.pages = 0
        /\ response.chunks = 0
        /\ VS = gen.start

\* C16 witness: a file named a.PDF of more than 50 MB, with a text that
\* would have been indexed, was rejected against a store holding another
\* document.
C16_Witness ==
    /\ UploadDone
    /\ EndsInPdf(gen.filename)
    /\ gen.size > 50 * 1024 * 1024
    /\ NonSpace(gen.extracted.text) # <<>>
    /\ gen.chunker = "chunk_text"
    /\ gen.fault = "none"
    /\ response.status = 400
    /\ DOMAIN client # {}

====
